---- MODULE Spec2Model ----
(***************************************************************************)
(* Portfolio builder backend: the Portfolio and PortfolioIteration tables,  *)
(* the request handlers that read and write them (CRUD, preview, AI         *)
(* generation and enhancement), the slug rule and the model response        *)
(* parser.  A request handler is a sequence of steps separated by the       *)
(* awaits of the JavaScript code; steps of different requests interleave.   *)
(***************************************************************************)
EXTENDS Integers, Sequences, FiniteSets, TLC

\* ------------------------------------------------------------------ bounds
MaxPortfolios == 3      \* portfolio rows ever inserted
MaxIterations == 2      \* iteration rows ever inserted
MaxRequests == 4        \* requests ever started
MaxAiRequests == 11     \* AI requests of one user in one limiter window
MaxSources == 2         \* sources of one generation request
NumProcs == 2           \* requests in flight at the same time

Procs == 1..NumProcs

\* ---------------------------------------------------------------- constants
SlugMaxLen == 50

Null == [null |-> TRUE]

Users == {"u1", "u2"}

\* ------------------------------------------------------ content documents
\* The six top-level keys of a content document.
Keys == {"hero", "about", "projects", "experience", "education", "contact"}

\* A document is a function from the top-level keys it has to the value of
\* each key.  Values are tokens that stand for one concrete JSON value each:
\*   "empty"  the default empty shape of the key (Portfolio.getDefaultContent)
\*   "basic"  the reduced shape of the parser's fallback structure
\*   "v1", "v2"  two different filled-in values
\*   "item"   an element of an array (key "0" of a spread array)
EmptyDoc == [k \in {} |-> "empty"]

getDefaultContent == [k \in Keys |-> "empty"]

\* { ...a, ...b }
Spread(a, b) ==
  [k \in (DOMAIN a) \cup (DOMAIN b) |-> IF k \in DOMAIN b THEN b[k] ELSE a[k]]

\* content setter followed by the getter: JSON.stringify(value || {}) and
\* JSON.parse of the stored text.
ContentSet(value) == IF value = Null THEN EmptyDoc ELSE value

\* ------------------------------------------------------------------- slugs
\* Titles and slugs are sequences of one-character strings.
ToLowerChar(c) ==
  CASE c = "A" -> "a"
    [] c = "C" -> "c"
    [] OTHER -> c

DigitChars == {"0", "1", "2", "3", "4", "5", "6", "7", "8", "9"}
AlnumChars == {"a", "b", "c", "o", "p", "y", "x", "A", "C"} \cup DigitChars
SpaceChars == {" "}

RECURSIVE StripChars(_)
\* .replace(/[^a-zA-Z0-9\s]/g, '')
StripChars(s) ==
  IF s = <<>> THEN <<>>
  ELSE IF Head(s) \in AlnumChars \cup SpaceChars
       THEN <<Head(s)>> \o StripChars(Tail(s))
       ELSE StripChars(Tail(s))

RECURSIVE HyphenateSpaces(_)
\* .replace(/\s+/g, '-')
HyphenateSpaces(s) ==
  IF s = <<>> THEN <<>>
  ELSE IF Head(s) \in SpaceChars
       THEN IF Tail(s) # <<>> /\ Head(Tail(s)) \in SpaceChars
            THEN HyphenateSpaces(Tail(s))
            ELSE <<"-">> \o HyphenateSpaces(Tail(s))
       ELSE <<Head(s)>> \o HyphenateSpaces(Tail(s))

\* .substring(0, 50)
Substring(s, n) == IF Len(s) <= n THEN s ELSE SubSeq(s, 1, n)

BaseSlug(title) ==
  Substring(HyphenateSpaces(StripChars([i \in 1..Len(title) |-> ToLowerChar(title[i])])),
            SlugMaxLen)

\* `${baseSlug}-${counter}`
SuffixedSlug(baseSlug, counter) == baseSlug \o <<"-", ToString(counter)>>

\* slug: validate { len: [1, 255], is: /^[a-zA-Z0-9_-]+$/ }
SlugChars == AlnumChars \cup {"-", "_"}
SlugValid(slug) ==
  /\ Len(slug) >= 1
  /\ \A i \in 1..Len(slug) : slug[i] \in SlugChars

\* title: validate { len: [1, 255] }
TitleValid(title) == Len(title) >= 1

\* ------------------------------------------------------------------- state
VARIABLES
  portfolios,        \* table portfolios: id -> row
  nextPortfolioId,   \* the id the next inserted portfolio gets (uuid)
  iterations,        \* table portfolio_iterations: id -> row
  nextIterationId,   \* the id the next inserted iteration gets (uuid)
  pc,                \* per request: the await it is suspended at
  req,               \* per request: its local variables
  response,          \* per request slot: the last response sent
  started,           \* number of requests started so far
  createLog,         \* history: the portfolios inserted, in order
  touched,           \* history: owners with a row renamed, moved or deleted
  rawText,           \* input of the standalone parser run
  parsed,            \* output of the standalone parser run
  hits,              \* store of aiLimiter: key -> hits in the current window
  accepted           \* history: per user, the AI requests of the current
                     \* window that reached a route handler

vars == <<portfolios, nextPortfolioId, iterations, nextIterationId, pc, req,
          response, started, createLog, touched, rawText, parsed, hits, accepted>>

dbVars == <<portfolios, nextPortfolioId, iterations, nextIterationId, createLog,
           touched>>
parserVars == <<rawText, parsed>>
limiterVars == <<hits, accepted>>

\* the store of a limiter at the start of a window, and the history with it
LimiterKeys == Users \cup {"ip"}
EmptyStore == [k \in LimiterKeys |-> 0]
NoneAccepted == [u \in Users |-> 0]

\* ------------------------------------------------------- table portfolios
PortfolioFields ==
  {"user_id", "title", "slug", "status", "template_id", "content",
   "generated_html", "generated_css", "generated_js", "view_count",
   "is_public", "published_at"}

\* The row Portfolio.create builds from the given values and the defaults of
\* the model definition.
PortfolioRow(user_id, title, slug, template_id, content) ==
  [user_id |-> user_id, title |-> title, slug |-> slug, status |-> "draft",
   template_id |-> template_id, content |-> ContentSet(content),
   generated_html |-> Null, generated_css |-> "null", generated_js |-> "null",
   view_count |-> 0, is_public |-> FALSE, published_at |-> "null"]

LiveIds == DOMAIN portfolios

\* Portfolio.findByUserAndSlug: the ids of the matching rows
findByUserAndSlug(userId, slug) ==
  {id \in LiveIds : portfolios[id].user_id = userId /\ portfolios[id].slug = slug}

\* mutant: the table has no unique index
UniqueIndexViolated_NoIndex(id, row) == FALSE

\* unique index on (user_id, slug): would row `row` stored under `id` clash?
UniqueIndexViolated(id, row) ==
  \E other \in LiveIds \ {id} :
     /\ portfolios[other].user_id = row.user_id
     /\ portfolios[other].slug = row.slug

\* attribute validators run by create and save
RowValid(row) == TitleValid(row.title) /\ SlugValid(row.slug)

\* instance.save(): the attributes whose value differs from the loaded one
ChangedFields(loaded, instance) ==
  {f \in PortfolioFields : loaded[f] # instance[f]}

\* mutant: the UPDATE is skipped when the row changed since it was loaded
SavedTable_VersionChecked(id, loaded, instance) ==
  IF id \in LiveIds /\ portfolios[id] = loaded
  THEN [portfolios EXCEPT ![id] = instance]
  ELSE portfolios

\* the table after UPDATE ... SET <changed> WHERE id (no row: no effect)
SavedTable(id, loaded, instance) ==
  IF id \in LiveIds
  THEN [portfolios EXCEPT ![id] =
          [f \in PortfolioFields |->
             IF f \in ChangedFields(loaded, instance) THEN instance[f] ELSE @[f]]]
  ELSE portfolios

\* does the save of `instance` (loaded as `loaded`) succeed?
SaveAccepted(id, loaded, instance) ==
  /\ RowValid(instance)
  /\ \/ id \notin LiveIds
     \/ ~ UniqueIndexViolated(id, SavedTable(id, loaded, instance)[id])

\* ------------------------------------------------------------ request slots
IdleReq ==
  [op |-> "none", user |-> "none", pid |-> 0, portfolio |-> Null,
   title |-> <<>>, baseSlug |-> <<>>, slug |-> <<>>, counter |-> 1,
   template_id |-> "none", content |-> Null, updates |-> EmptyDoc,
   result |-> Null, iteration |-> 0, iterStatus |-> "none",
   section |-> "none", modelCalls |-> 0, created |-> 0, error |-> "none",
   sources |-> <<>>]

Idle(p) == pc[p] = "idle"

\* A new request takes the first free slot (the slots are interchangeable).
CanStart(p) ==
  /\ Idle(p)
  /\ \A q \in Procs : q < p => ~ Idle(q)
  /\ started < MaxRequests

\* creations in flight reserve an id, so that inserts stay within the bound
InFlightCreates ==
  Cardinality({q \in Procs : pc[q] \in {"slug_check", "insert"}})

CanStartCreate(p) ==
  CanStart(p) /\ nextPortfolioId + InFlightCreates <= MaxPortfolios

\* generator calls in flight reserve an Iteration id the same way
InFlightIterationCreates ==
  Cardinality({q \in Procs : pc[q] \in {"gen_iter", "enh_find", "enh_iter"}})

CanStartGenerator(p) ==
  CanStart(p) /\ nextIterationId + InFlightIterationCreates <= MaxIterations

Begin(p, label, locals) ==
  /\ pc' = [pc EXCEPT ![p] = label]
  /\ req' = [req EXCEPT ![p] = locals]
  /\ response' = [response EXCEPT ![p] = Null]
  /\ started' = started + 1

\* res.json / res.send: the request is over and its locals are gone
Respond(p, r) ==
  /\ pc' = [pc EXCEPT ![p] = "idle"]
  /\ req' = [req EXCEPT ![p] = IdleReq]
  /\ response' = [response EXCEPT ![p] = r]

\* a request refused before its first await
Refuse(p, r) ==
  /\ Respond(p, r)
  /\ started' = started + 1

\* the request moves on to its next await
Goto(p, label) ==
  /\ pc' = [pc EXCEPT ![p] = label]
  /\ UNCHANGED <<req, response>>

\* checkOwnership: findByPk, 404 when absent, 403 when owned by someone else
OwnershipFailure(user, id) ==
  IF id \notin LiveIds THEN [status |-> 404, error |-> "Not Found"]
  ELSE IF portfolios[id].user_id # user THEN [status |-> 403, error |-> "Forbidden"]
  ELSE Null

\* ---------------------------------------------------- Portfolio.generateSlug
\* mutant: the counter is incremented before it is used
generateSlug_CounterFirst(p) ==
  /\ pc[p] = "slug_check"
  /\ IF findByUserAndSlug(req[p].user, req[p].slug) # {}
     THEN /\ req' = [req EXCEPT ![p].slug = SuffixedSlug(req[p].baseSlug, req[p].counter + 1),
                                ![p].counter = req[p].counter + 1]
          /\ pc' = pc
          /\ response' = response
     ELSE Goto(p, "insert")
  /\ UNCHANGED <<dbVars, parserVars, limiterVars, started>>

\* One pass of the while loop: findByUserAndSlug is awaited, so other
\* requests run between two passes and between the last pass and the insert.
generateSlug(p) ==
  /\ pc[p] = "slug_check"
  /\ IF findByUserAndSlug(req[p].user, req[p].slug) # {}
     THEN /\ req' = [req EXCEPT ![p].slug = SuffixedSlug(req[p].baseSlug, req[p].counter),
                                ![p].counter = req[p].counter + 1]
          /\ pc' = pc
          /\ response' = response
     ELSE Goto(p, "insert")
  /\ UNCHANGED <<dbVars, parserVars, limiterVars, started>>

\* ------------------------------------------------------ POST /api/portfolios
CreateStart(p, user, title, template_id, content) ==
  /\ CanStartCreate(p)
  /\ IF title = <<>>
     THEN \* validatePortfolioCreation: title is required
          Refuse(p, [status |-> 400, error |-> "Validation Error"])
     ELSE Begin(p, "slug_check",
                [IdleReq EXCEPT !.op = "create", !.user = user, !.title = title,
                                !.baseSlug = BaseSlug(title), !.slug = BaseSlug(title),
                                !.template_id = IF template_id = "none" THEN "modern-dev"
                                                ELSE template_id,
                                !.content = IF content = Null THEN getDefaultContent
                                            ELSE content])
  /\ UNCHANGED <<dbVars, parserVars, limiterVars>>

\* Portfolio.create of the create and duplicate handlers, and their response
PortfolioInsert(p) ==
  /\ pc[p] = "insert"
  /\ LET row == PortfolioRow(req[p].user, req[p].title, req[p].slug,
                             req[p].template_id, req[p].content)
         id == nextPortfolioId
     IN IF RowValid(row) /\ ~ UniqueIndexViolated(id, row)
        THEN /\ portfolios' = [i \in LiveIds \cup {id} |->
                                 IF i = id THEN row ELSE portfolios[i]]
             /\ nextPortfolioId' = id + 1
             /\ createLog' = Append(createLog,
                                    [id |-> id, user_id |-> row.user_id,
                                     title |-> row.title, slug |-> row.slug])
             /\ Respond(p, [status |-> 201, id |-> id, slug |-> row.slug])
        ELSE /\ UNCHANGED <<portfolios, nextPortfolioId, createLog>>
             /\ Respond(p, [status |-> 500, error |-> "Internal Server Error"])
  /\ UNCHANGED <<iterations, nextIterationId, touched, parserVars, limiterVars, started>>

\* -------------------------------------------- POST /api/portfolios/:id/duplicate
CopySuffix == <<" ", "(", "C", "o", "p", "y", ")">>

DuplicateStart(p, user, id, title) ==
  /\ CanStartCreate(p)
  /\ IF OwnershipFailure(user, id) # Null
     THEN Refuse(p, OwnershipFailure(user, id))
     ELSE LET original == portfolios[id]
              duplicateTitle == IF title # <<>> THEN title
                                ELSE original.title \o CopySuffix
          IN Begin(p, "slug_check",
                   [IdleReq EXCEPT !.op = "duplicate", !.user = original.user_id,
                                   !.pid = id, !.portfolio = original,
                                   !.title = duplicateTitle,
                                   !.baseSlug = BaseSlug(duplicateTitle),
                                   !.slug = BaseSlug(duplicateTitle),
                                   !.template_id = original.template_id,
                                   !.content = original.content])
  /\ UNCHANGED <<dbVars, parserVars, limiterVars>>

\* ------------------------------------------------- DELETE /api/portfolios/:id
DeleteStart(p, user, id) ==
  /\ CanStart(p)
  /\ IF OwnershipFailure(user, id) # Null
     THEN Refuse(p, OwnershipFailure(user, id))
     ELSE Begin(p, "destroy",
                [IdleReq EXCEPT !.op = "delete", !.user = user, !.pid = id,
                                !.portfolio = portfolios[id]])
  /\ UNCHANGED <<dbVars, parserVars, limiterVars>>

\* portfolio.destroy(): the row goes, and its iterations with it (CASCADE)
Destroy(p) ==
  /\ pc[p] = "destroy"
  /\ portfolios' = [i \in LiveIds \ {req[p].pid} |-> portfolios[i]]
  /\ iterations' = [i \in {j \in DOMAIN iterations :
                              iterations[j].portfolio_id # req[p].pid} |-> iterations[i]]
  /\ touched' = IF req[p].pid \in LiveIds
                THEN touched \cup {portfolios[req[p].pid].user_id}
                ELSE touched
  /\ Respond(p, [status |-> 200, message |-> "deleted"])
  /\ UNCHANGED <<nextPortfolioId, nextIterationId, createLog, parserVars, limiterVars, started>>

\* ---------------------------------------------------- PUT /api/portfolios/:id
\* `updates` is the request body: a function from the attributes it names to
\* their new values.
ApplyUpdates(row, updates) ==
  [f \in PortfolioFields |->
     IF f \in DOMAIN updates
     THEN IF f = "content" THEN ContentSet(updates[f]) ELSE updates[f]
     ELSE row[f]]

SlugCheckNeeded(row, updates) ==
  /\ "slug" \in DOMAIN updates
  /\ updates.slug # <<>>
  /\ updates.slug # row.slug

PutStart(p, user, id, updates) ==
  /\ CanStart(p)
  /\ IF OwnershipFailure(user, id) # Null
     THEN Refuse(p, OwnershipFailure(user, id))
     ELSE Begin(p, IF SlugCheckNeeded(portfolios[id], updates)
                   THEN "put_slug" ELSE "put_save",
                [IdleReq EXCEPT !.op = "put", !.user = user, !.pid = id,
                                !.portfolio = portfolios[id],
                                !.updates = updates])
  /\ UNCHANGED <<dbVars, parserVars, limiterVars>>

PutSlugCheck(p) ==
  /\ pc[p] = "put_slug"
  /\ IF findByUserAndSlug(req[p].portfolio.user_id, req[p].updates.slug) \ {req[p].pid} # {}
     THEN Respond(p, [status |-> 400, error |-> "Slug already exists"])
     ELSE Goto(p, "put_save")
  /\ UNCHANGED <<dbVars, parserVars, limiterVars, started>>

PutSave(p) ==
  /\ pc[p] = "put_save"
  /\ LET loaded == req[p].portfolio
         instance == ApplyUpdates(loaded, req[p].updates)
     IN IF SaveAccepted(req[p].pid, loaded, instance)
        THEN /\ portfolios' = SavedTable(req[p].pid, loaded, instance)
             /\ touched' = IF /\ req[p].pid \in LiveIds
                              /\ ChangedFields(loaded, instance)
                                    \cap {"slug", "title", "user_id"} # {}
                           THEN touched \cup {portfolios[req[p].pid].user_id,
                                              instance.user_id}
                           ELSE touched
             /\ Respond(p, [status |-> 200, slug |-> instance.slug])
        ELSE /\ UNCHANGED <<portfolios, touched>>
             /\ Respond(p, [status |-> 500, error |-> "Internal Server Error"])
  /\ UNCHANGED <<nextPortfolioId, iterations, nextIterationId, createLog,
                 parserVars, limiterVars, started>>

\* ------------------------------------------------- model response parser
\* The text a model call returns, as far as the parsers look at it: whether
\* there is prose around the payload, whether the payload sits in a fenced
\* ```json block, and the payload itself.  A payload is a JSON value:
\*   t = "obj"   an object, v its members
\*   t = "arr"   a non-empty array, v its elements by index
\*   t = "null"  the value null (no members)
\*   t = "bad"   not well-formed JSON
JObj(doc) == [t |-> "obj", v |-> doc]
JArr == [t |-> "arr", v |-> [k \in {"0"} |-> "item"]]
JNull == [t |-> "null", v |-> EmptyDoc]
JBad == [t |-> "bad", v |-> EmptyDoc]

Text(prose, fenced, payload) == [prose |-> prose, fenced |-> fenced, payload |-> payload]

\* JSON.parse(content) succeeds on a bare, well-formed payload only
JsonParses(text) == ~ text.prose /\ ~ text.fenced /\ text.payload.t # "bad"

\* content.match(/```json\n([\s\S]*?)\n```/) and JSON.parse of the group
FencedJsonParses(text) == text.fenced /\ text.payload.t # "bad"

\* the basic structure returned when nothing parses
FallbackStructure ==
  JObj([k \in {"hero", "about", "projects", "contact"} |->
          CASE k = "hero" -> "basic"
            [] k = "about" -> "empty"
            [] k = "projects" -> "empty"
            [] k = "contact" -> "basic"])

_parsePortfolioContent(text) ==
  IF JsonParses(text) THEN text.payload
  ELSE IF FencedJsonParses(text) THEN text.payload
  ELSE FallbackStructure

\* the raw text becomes the value of the section when it does not parse
_parseSectionContent(text, section) ==
  IF JsonParses(text) THEN text.payload
  ELSE JObj([k \in {section} |-> "text"])

\* ------------------------------------------------ table portfolio_iterations
IterationRow(portfolio_id, iteration_type) ==
  [portfolio_id |-> portfolio_id, iteration_type |-> iteration_type,
   status |-> "pending"]

\* PortfolioIteration.create: portfolio_id is allowNull: false (0 stands for
\* null) and references portfolios.id
IterationCreateAccepted(row) ==
  /\ row.portfolio_id # 0
  /\ row.portfolio_id \in LiveIds

\* iteration.save() after a status change (no row: no effect)
IterationSaved(id, status) ==
  IF id \in DOMAIN iterations
  THEN [iterations EXCEPT ![id].status = status]
  ELSE iterations

\* what a generator call leaves behind when it returns: the number of
\* Iteration records it created and the stored status of its record
CallSummary(op, created, id, table) ==
  [op |-> op, created |-> created,
   final |-> IF id \in DOMAIN table THEN table[id].status ELSE "none"]

\* ----------------------------------------------------- POST /api/ai/generate
\* generatePortfolio up to the end of PortfolioIteration.create.  The record
\* is created with portfolio_id: null, which the table refuses, so the call
\* goes to its catch block with no iteration and returns a failure result.
GenerateStart(p, user) ==
  /\ CanStartGenerator(p)
  /\ Begin(p, "gen_iter", [IdleReq EXCEPT !.op = "generate", !.user = user])
  /\ UNCHANGED <<dbVars, parserVars, limiterVars>>

GenerateCreateIteration(p) ==
  /\ pc[p] = "gen_iter"
  /\ nextIterationId <= MaxIterations
  /\ IF IterationCreateAccepted(IterationRow(0, "generate"))
     THEN /\ iterations' = [i \in DOMAIN iterations \cup {nextIterationId} |->
                              IF i = nextIterationId THEN IterationRow(0, "generate")
                              ELSE iterations[i]]
          /\ nextIterationId' = nextIterationId + 1
          /\ pc' = [pc EXCEPT ![p] = "gen_sources"]
          /\ req' = [req EXCEPT ![p].iteration = nextIterationId, ![p].created = 1,
                                ![p].iterStatus = "pending"]
          /\ response' = response
     ELSE /\ UNCHANGED <<iterations, nextIterationId>>
          /\ Respond(p, [status |-> 400, error |-> "Generation Failed",
                         call |-> CallSummary("generate", 0, 0, iterations)])
  /\ UNCHANGED <<portfolios, nextPortfolioId, createLog, touched, parserVars, limiterVars, started>>

\* -------------------------------------------------- POST /api/ai/iterate/:id
\* section = "none": the whole document is enhanced
EnhanceStart(p, user, id, section) ==
  /\ CanStartGenerator(p)
  /\ IF OwnershipFailure(user, id) # Null
     THEN Refuse(p, OwnershipFailure(user, id))
     ELSE Begin(p, "enh_find",
                [IdleReq EXCEPT !.op = "enhance", !.user = user, !.pid = id,
                                !.section = section])
  /\ UNCHANGED <<dbVars, parserVars, limiterVars>>

\* enhancePortfolio: Portfolio.findByPk
EnhanceFind(p) ==
  /\ pc[p] = "enh_find"
  /\ IF req[p].pid \in LiveIds
     THEN /\ pc' = [pc EXCEPT ![p] = "enh_iter"]
          /\ req' = [req EXCEPT ![p].portfolio = portfolios[req[p].pid]]
          /\ response' = response
     ELSE Respond(p, [status |-> 400, error |-> "Portfolio not found",
                      call |-> CallSummary("enhance", 0, 0, iterations)])
  /\ UNCHANGED <<dbVars, parserVars, limiterVars, started>>

\* enhancePortfolio: PortfolioIteration.create; ok = FALSE is a failure of
\* the database
EnhanceCreateIteration(p, ok) ==
  /\ pc[p] = "enh_iter"
  /\ nextIterationId <= MaxIterations
  /\ IF ok /\ IterationCreateAccepted(IterationRow(req[p].pid, "enhance"))
     THEN /\ iterations' = [i \in DOMAIN iterations \cup {nextIterationId} |->
                              IF i = nextIterationId
                              THEN IterationRow(req[p].pid, "enhance")
                              ELSE iterations[i]]
          /\ nextIterationId' = nextIterationId + 1
          /\ pc' = [pc EXCEPT ![p] = "enh_ai"]
          /\ req' = [req EXCEPT ![p].iteration = nextIterationId, ![p].created = 1,
                                ![p].iterStatus = "pending", ![p].modelCalls = 1]
          /\ response' = response
     ELSE /\ UNCHANGED <<iterations, nextIterationId>>
          /\ Respond(p, [status |-> 400, error |-> "create failed",
                         call |-> CallSummary("enhance", 0, 0, iterations)])
  /\ UNCHANGED <<portfolios, nextPortfolioId, createLog, touched, parserVars, limiterVars, started>>

\* [section]: aiResult.content[section] || aiResult.content
SectionValue(parsedJson, section) ==
  IF section \in DOMAIN parsedJson.v THEN parsedJson.v[section] ELSE "nested"

\* mutant: the section branch spreads the whole reply into the document
EnhancedContent_SpreadReply(content, section, text) ==
  IF section # "none"
  THEN Spread(content, _parseSectionContent(text, section).v)
  ELSE Spread(content, _parsePortfolioContent(text).v)

\* the enhancedContent computed from the loaded portfolio and the parsed text
EnhancedContent(content, section, text) ==
  IF section # "none"
  THEN Spread(content, [k \in {section} |->
                          SectionValue(_parseSectionContent(text, section), section)])
  ELSE Spread(content, _parsePortfolioContent(text).v)

\* aiResult.content: what the parser made of the model text
AiResultContent(section, text) ==
  IF section # "none" THEN _parseSectionContent(text, section)
  ELSE _parsePortfolioContent(text)

\* aiResult.content[section] throws when the text parsed to null
EnhanceThrows(section, text) ==
  section # "none" /\ _parseSectionContent(text, section).t = "null"

\* error.code of the error openai.chat.completions.create rejects with
ErrorCode(outcome) ==
  CASE outcome.kind = "overloaded" -> "model_overloaded"
    [] outcome.kind = "timeout" -> "timeout"
    [] OTHER -> "api_error"

\* mutant: every error of the primary model is answered with the fallback
EnhanceModelResponse_FallbackOnAnyError(p, outcome) ==
  /\ pc[p] = "enh_ai"
  /\ IF outcome.kind = "text" /\ ~ EnhanceThrows(req[p].section, outcome.text)
     THEN /\ pc' = [pc EXCEPT ![p] = "enh_update"]
          /\ req' = [req EXCEPT ![p].content =
                        EnhancedContent(req[p].portfolio.content, req[p].section,
                                        outcome.text),
                                ![p].result = AiResultContent(req[p].section, outcome.text)]
     ELSE IF outcome.kind # "text" /\ req[p].section = "none"
     THEN /\ pc' = [pc EXCEPT ![p] = "enh_ai_fallback"]
          /\ req' = [req EXCEPT ![p].modelCalls = 2,
                                ![p].error = ErrorCode(outcome)]
     ELSE /\ pc' = [pc EXCEPT ![p] = "enh_failed"]
          /\ req' = [req EXCEPT ![p].error = "AI call failed"]
  /\ UNCHANGED <<dbVars, parserVars, limiterVars, response, started>>

\* How the call awaited at enh_ai settles: a text, the overload error,
\* another error of the API, or the timeout error of the client library (the
\* constructor leaves the timeout at the library's default).
EnhanceModelResponse(p, outcome) ==
  /\ pc[p] = "enh_ai"
  /\ IF outcome.kind = "text" /\ ~ EnhanceThrows(req[p].section, outcome.text)
     THEN /\ pc' = [pc EXCEPT ![p] = "enh_update"]
          /\ req' = [req EXCEPT ![p].content =
                        EnhancedContent(req[p].portfolio.content, req[p].section,
                                        outcome.text),
                                ![p].result = AiResultContent(req[p].section, outcome.text)]
     ELSE IF ErrorCode(outcome) = "model_overloaded" /\ req[p].section = "none"
     THEN /\ pc' = [pc EXCEPT ![p] = "enh_ai_fallback"]
          /\ req' = [req EXCEPT ![p].modelCalls = 2,
                                ![p].error = ErrorCode(outcome)]
     ELSE /\ pc' = [pc EXCEPT ![p] = "enh_failed"]
          /\ req' = [req EXCEPT ![p].error = "AI call failed"]
  /\ UNCHANGED <<dbVars, parserVars, limiterVars, response, started>>

\* _generateWithFallback: the reply of the secondary model
EnhanceFallbackResponse(p, outcome) ==
  /\ pc[p] = "enh_ai_fallback"
  /\ IF outcome.kind = "text"
     THEN /\ pc' = [pc EXCEPT ![p] = "enh_update"]
          /\ req' = [req EXCEPT ![p].content =
                        EnhancedContent(req[p].portfolio.content, "none", outcome.text),
                                ![p].result = AiResultContent("none", outcome.text)]
     ELSE /\ pc' = [pc EXCEPT ![p] = "enh_failed"]
          /\ req' = [req EXCEPT ![p].error = "AI call failed"]
  /\ UNCHANGED <<dbVars, parserVars, limiterVars, response, started>>

\* Portfolio.prototype.updateContent: merge into the loaded content and save
updateContent(loaded, newContent) ==
  [loaded EXCEPT !.content = ContentSet(Spread(loaded.content, newContent))]

EnhanceUpdateContent(p, ok) ==
  /\ pc[p] = "enh_update"
  /\ LET loaded == req[p].portfolio
         instance == updateContent(loaded, req[p].content)
     IN IF ok /\ SaveAccepted(req[p].pid, loaded, instance)
        THEN /\ portfolios' = SavedTable(req[p].pid, loaded, instance)
             /\ pc' = [pc EXCEPT ![p] = "enh_complete"]
             /\ req' = [req EXCEPT ![p].portfolio = instance]
        ELSE /\ portfolios' = portfolios
             /\ pc' = [pc EXCEPT ![p] = "enh_failed"]
             /\ req' = [req EXCEPT ![p].error = "save failed"]
  /\ UNCHANGED <<nextPortfolioId, iterations, nextIterationId, createLog, touched,
                 parserVars, limiterVars, response, started>>

\* mutant: a statement after markCompleted throws, so the catch block runs
\* on a record that is already completed
EnhanceMarkCompleted_ThenThrows(p, ok) ==
  /\ pc[p] = "enh_complete"
  /\ iterations' = IF ok THEN IterationSaved(req[p].iteration, "completed")
                   ELSE iterations
  /\ pc' = [pc EXCEPT ![p] = "enh_failed"]
  /\ req' = [req EXCEPT ![p].iterStatus = "completed", ![p].error = "thrown"]
  /\ response' = response
  /\ UNCHANGED <<portfolios, nextPortfolioId, nextIterationId, createLog, touched,
                 parserVars, limiterVars, started>>

\* iteration.markCompleted and the success result
EnhanceMarkCompleted(p, ok) ==
  /\ pc[p] = "enh_complete"
  /\ IF ok
     THEN /\ iterations' = IterationSaved(req[p].iteration, "completed")
          /\ Respond(p, [status |-> 200, message |-> "enhanced",
                         call |-> CallSummary("enhance", req[p].created,
                                              req[p].iteration, iterations')])
     ELSE /\ iterations' = iterations
          /\ pc' = [pc EXCEPT ![p] = "enh_failed"]
          /\ req' = [req EXCEPT ![p].iterStatus = "completed",
                                ![p].error = "save failed"]
          /\ response' = response
  /\ UNCHANGED <<portfolios, nextPortfolioId, nextIterationId, createLog, touched,
                 parserVars, limiterVars, started>>

\* the catch block: iteration.markFailed and the failure result; when the
\* save fails the exception leaves enhancePortfolio and the route answers 500
EnhanceMarkFailed(p, ok) ==
  /\ pc[p] = "enh_failed"
  /\ IF ok
     THEN /\ iterations' = IterationSaved(req[p].iteration, "failed")
          /\ Respond(p, [status |-> 400, error |-> "Enhancement Failed",
                         call |-> CallSummary("enhance", req[p].created,
                                              req[p].iteration, iterations')])
     ELSE /\ iterations' = iterations
          /\ Respond(p, [status |-> 500, error |-> "Internal Server Error",
                         call |-> CallSummary("enhance", req[p].created,
                                              req[p].iteration, iterations)])
  /\ UNCHANGED <<portfolios, nextPortfolioId, nextIterationId, createLog, touched,
                 parserVars, limiterVars, started>>

\* ------------------------------------------------------- source normalizer
\* A source is its type, the fields its data has, and ok: whether the call
\* the normalizer makes for it (GitHub for a github source, the resume
\* parser for a resume source) succeeds.
\* the switch of _processSources throws for this source
ProcessThrows(source) ==
  \/ source.type = "github" /\ ~ source.ok
  \/ source.type = "resume"
       /\ (source.fields \cap {"text", "content"} = {} \/ ~ source.ok)

\* processedSource after the switch: the _process*Source result of the four
\* known types; for another type the default branch leaves the initial
\* { type: source.type, data: source.data }
ProcessedSource(source) ==
  CASE source.type = "github" -> [type |-> "github", data |-> "processedData"]
    [] source.type = "resume" -> [type |-> "resume", data |-> "parseResult"]
    [] source.type = "prompt" -> [type |-> "prompt", data |-> "description"]
    [] OTHER -> [type |-> source.type, data |-> "source.data"]

\* _processSources: the loop pushes processedSource unless the switch threw
RECURSIVE _processSources(_)
_processSources(sources) ==
  IF sources = <<>> THEN <<>>
  ELSE IF ProcessThrows(Head(sources)) THEN _processSources(Tail(sources))
  ELSE <<ProcessedSource(Head(sources))>> \o _processSources(Tail(sources))

\* ---------------------------------------------- rate limit of /api/ai routes
AiLimitFree == 10
AiLimitPro == 50

\* User.subscription_tier (default free); u2 has the pro plan
SubscriptionTier(user) == IF user = "u2" THEN "pro" ELSE "free"

\* aiLimiter.max; user is req.user, "none" when it is not set
aiLimiterMax(user) ==
  IF user # "none" /\ SubscriptionTier(user) = "pro" THEN AiLimitPro ELSE AiLimitFree

\* aiLimiter.keyGenerator: req.user?.id || req.ip
aiLimiterKey(user) == IF user # "none" THEN user ELSE "ip"

\* aiLimiter.skip: !req.user
aiLimiterSkip(user) == user = "none"

\* express-rate-limit: a skipped request goes on uncounted; another one is
\* counted under its key and goes on unless the count is over max
aiLimiter(user, store) ==
  IF aiLimiterSkip(user)
  THEN [next |-> TRUE, store |-> store]
  ELSE LET key == aiLimiterKey(user)
           totalHits == store[key] + 1
       IN [next |-> totalHits <= aiLimiterMax(user),
           store |-> [store EXCEPT ![key] = totalHits]]

\* req.user at router.use(aiLimiter): verifyFirebaseToken, which sets it, is
\* a middleware of each route and runs after the router-level limiter
UserAtAiLimiter(token) == "none"

\* POST /api/ai/template-recommendations with a body that has no sources:
\* aiLimiter, verifyFirebaseToken (token "none": no Authorization header),
\* then the handler, which answers 400 before its first await
TemplateRecommendationsRequest(p, token) ==
  /\ Idle(p)
  /\ \A q \in Procs : q < p => ~ Idle(q)
  /\ token # "none" => accepted[token] < MaxAiRequests
  /\ LET limited == aiLimiter(UserAtAiLimiter(token), hits)
     IN /\ hits' = limited.store
        /\ IF ~ limited.next
           THEN /\ Respond(p, [status |-> 429, error |-> "AI Rate Limit Exceeded"])
                /\ accepted' = accepted
           ELSE IF token = "none"
           THEN /\ Respond(p, [status |-> 401, error |-> "Unauthorized"])
                /\ accepted' = accepted
           ELSE /\ Respond(p, [status |-> 400, error |-> "Sources array is required"])
                /\ accepted' = [accepted EXCEPT ![token] = @ + 1]
  /\ UNCHANGED <<dbVars, parserVars, started>>

\* the one-hour window of the limiter ends: the store starts again
WindowReset ==
  /\ hits # EmptyStore \/ accepted # NoneAccepted
  /\ hits' = EmptyStore
  /\ accepted' = NoneAccepted
  /\ UNCHANGED <<dbVars, parserVars, pc, req, response, started>>

\* ------------------------------------------------ validation of AI requests
ValidationError == [status |-> 400, error |-> "Validation Error"]

SourceTypes == {"github", "resume", "prompt", "linkedin", "leetcode"}

\* validateAIGeneration: sources is an array of at least one element, every
\* type is a known one, every data is an object (object: data is one; fields:
\* the fields it has)
validateAIGeneration(sources) ==
  /\ Len(sources) >= 1
  /\ \A i \in 1..Len(sources) :
       sources[i].type \in SourceTypes /\ sources[i].object

\* validateAIIteration: prompt of 10 to 2000 characters; section, when
\* present, is a string
validateAIIteration(promptLength, section) ==
  promptLength >= 10 /\ promptLength <= 2000

\* POST /api/ai/generate: validateAIGeneration, then the handler
GenerateRequest(p, user, sources) ==
  IF ~ validateAIGeneration(sources)
  THEN /\ CanStart(p)
       /\ Refuse(p, ValidationError)
       /\ UNCHANGED <<dbVars, parserVars, limiterVars>>
  ELSE /\ CanStartGenerator(p)
       /\ Begin(p, "gen_iter", [IdleReq EXCEPT !.op = "generate", !.user = user,
                                              !.sources = sources])
       /\ UNCHANGED <<dbVars, parserVars, limiterVars>>

\* POST /api/ai/iterate/:id: validateAIIteration, checkOwnership, then the
\* handler
IterateRequest(p, user, id, promptLength, section) ==
  IF ~ validateAIIteration(promptLength, section)
  THEN /\ CanStart(p)
       /\ Refuse(p, ValidationError)
       /\ UNCHANGED <<dbVars, parserVars, limiterVars>>
  ELSE EnhanceStart(p, user, id, section)

\* ----------------------------------------- POST /api/ai/enhance-section/:id
\* section = "none": the body has no section.  The route enhances the
\* portfolio loaded by checkOwnership and records no Iteration.
EnhanceSectionStart(p, user, id, section) ==
  /\ CanStart(p)
  /\ IF OwnershipFailure(user, id) # Null
     THEN Refuse(p, OwnershipFailure(user, id))
     ELSE IF section = "none"
     THEN Refuse(p, [status |-> 400, error |-> "Missing required fields"])
     ELSE Begin(p, "sec_ai",
                [IdleReq EXCEPT !.op = "enhance-section", !.user = user, !.pid = id,
                                !.section = section, !.portfolio = portfolios[id],
                                !.modelCalls = 1])
  /\ UNCHANGED <<dbVars, parserVars, limiterVars>>

\* the reply to aiService.enhanceSection; every error is rethrown and
\* answered by the catch block of the route
EnhanceSectionResponse(p, outcome) ==
  /\ pc[p] = "sec_ai"
  /\ IF outcome.kind = "text" /\ ~ EnhanceThrows(req[p].section, outcome.text)
     THEN /\ pc' = [pc EXCEPT ![p] = "sec_update"]
          /\ req' = [req EXCEPT ![p].content =
                        EnhancedContent(req[p].portfolio.content, req[p].section,
                                        outcome.text),
                                ![p].result = AiResultContent(req[p].section, outcome.text)]
          /\ response' = response
     ELSE Respond(p, [status |-> 500, error |-> "Internal Server Error"])
  /\ UNCHANGED <<dbVars, parserVars, limiterVars, started>>

EnhanceSectionUpdate(p, ok) ==
  /\ pc[p] = "sec_update"
  /\ LET loaded == req[p].portfolio
         instance == updateContent(loaded, req[p].content)
     IN IF ok /\ SaveAccepted(req[p].pid, loaded, instance)
        THEN /\ portfolios' = SavedTable(req[p].pid, loaded, instance)
             /\ Respond(p, [status |-> 200, message |-> "Section enhanced"])
        ELSE /\ portfolios' = portfolios
             /\ Respond(p, [status |-> 500, error |-> "Internal Server Error"])
  /\ UNCHANGED <<nextPortfolioId, iterations, nextIterationId, createLog, touched,
                 parserVars, limiterVars, started>>

\* -------------------------------------------------------- template engine
\* the templates compiled at startup: modern-dev, which the repository
\* ships, and minimal, a template directory the deployment adds (a template
\* that prints the sections and current_year and calls no helper)
compiledTemplates == {"modern-dev", "minimal"}

\* the helpers _registerHelpers registers with Handlebars
registeredHelpers ==
  {"formatDate", "if_eq", "length", "limit", "join", "truncate", "add", "ensureHttp"}

\* the helpers a template calls, in the order of the calls: modern-dev calls
\* range and random in its particles block; minimal calls none
TemplateHelpers(templateId) ==
  IF templateId = "modern-dev" THEN <<"ensureHttp", "range", "random", "add">>
  ELSE <<>>

\* the helpers template(templateData) finds missing
MissingHelpers(templateId) ==
  SelectSeq(TemplateHelpers(templateId), LAMBDA h : h \notin registeredHelpers)

\* the files the repository ships in the templates directory
ShippedFiles == {"modern-dev/style.css", "modern-dev/script.js"}
\* the year of the clock while the requests of a run are served
ServingYear == 2026

\* style.css and script.js of a template, read from the directory at the
\* time of the call; "" when the file does not exist
_getTemplateCSS(templateId, files) ==
  IF templateId = "modern-dev" /\ "modern-dev/style.css" \in files
    THEN "modern-dev/style.css"
  ELSE IF templateId = "minimal" /\ "minimal/style.css" \in files
    THEN "minimal/style.css"
  ELSE ""

_getTemplateJS(templateId, files) ==
  IF templateId = "modern-dev" /\ "modern-dev/script.js" \in files
    THEN "modern-dev/script.js"
  ELSE ""

\* content.<key> && content.<key>.length > 0: a filled list or a string
HasLength(content, k) ==
  k \in DOMAIN content /\ content[k] \in {"v1", "v2", "text"}

\* _prepareTemplateData: the defaults, overridden by the content, the year
\* of the clock and the presence flags
_prepareTemplateData(content, year) ==
  [sections |-> Spread(getDefaultContent, content),
   current_year |-> year,
   has_projects |-> HasLength(content, "projects"),
   has_experience |-> HasLength(content, "experience"),
   has_education |-> HasLength(content, "education")]

\* new Error(`Template '${templateId}' not found`).message
TemplateNotFound(templateId) == <<"Template not found", templateId>>

\* the message of the exception Handlebars throws for a helper nobody
\* registered
MissingHelper(helper) == <<"Missing helper", helper>>

\* generateHTML called when the clock shows `year` and the templates
\* directory holds `files`
Render(content, templateId, year, files) ==
  IF templateId \notin compiledTemplates
  THEN [success |-> FALSE, html |-> Null, css |-> "", js |-> "",
        error |-> TemplateNotFound(templateId)]
  ELSE IF MissingHelpers(templateId) # <<>>
  THEN [success |-> FALSE, html |-> Null, css |-> "", js |-> "",
        error |-> MissingHelper(Head(MissingHelpers(templateId)))]
  ELSE [success |-> TRUE,
        html |-> [template |-> templateId,
                  data |-> _prepareTemplateData(content, year),
                  css |-> _getTemplateCSS(templateId, files),
                  js |-> _getTemplateJS(templateId, files)],
        css |-> _getTemplateCSS(templateId, files),
        js |-> _getTemplateJS(templateId, files)]

\* mutant: a missing template is replaced by the template minimal
generateHTML_DefaultTemplate(content, templateId) ==
  Render(content, "minimal", ServingYear, ShippedFiles)

\* templateEngine.generateHTML as the request handlers of a run call it
generateHTML(content, templateId) ==
  Render(content, templateId, ServingYear, ShippedFiles)

\* Portfolio.prototype.setGeneratedFiles: css and js are stored when truthy
setGeneratedFiles(loaded, html, css, js) ==
  [loaded EXCEPT !.generated_html = html,
                 !.generated_css = IF css # "" THEN css ELSE @,
                 !.generated_js = IF js # "" THEN js ELSE @]

\* an HTML response: the page sent, how it was decorated, and the content and
\* template the request had loaded when it chose the page
HtmlResponse(html, decoration, loaded) ==
  [status |-> 200, html |-> html, decoration |-> decoration,
   of |-> [content |-> loaded.content, template_id |-> loaded.template_id]]

\* ------------------------- GET /api/preview/:id and GET /api/preview/:id/iframe
\* variant = "iframe" inserts the iframe styles into the page
PreviewStart(p, user, id, variant) ==
  /\ CanStart(p)
  /\ IF OwnershipFailure(user, id) # Null
     THEN Refuse(p, OwnershipFailure(user, id))
     ELSE LET portfolio == portfolios[id]
              result == generateHTML(portfolio.content, portfolio.template_id)
          IN IF portfolio.generated_html # Null
             THEN Refuse(p, HtmlResponse(portfolio.generated_html, variant, portfolio))
             ELSE IF ~ result.success
             THEN Refuse(p, [status |-> 400, error |-> "Preview Generation Failed",
                             message |-> result.error])
             ELSE Begin(p, "preview_save",
                        [IdleReq EXCEPT !.op = variant, !.user = user, !.pid = id,
                                        !.portfolio = portfolio, !.result = result])
  /\ UNCHANGED <<dbVars, parserVars, limiterVars>>

PreviewSave(p) ==
  /\ pc[p] = "preview_save"
  /\ LET loaded == req[p].portfolio
         result == req[p].result
         instance == setGeneratedFiles(loaded, result.html, result.css, result.js)
     IN /\ portfolios' = SavedTable(req[p].pid, loaded, instance)
        /\ Respond(p, HtmlResponse(result.html, req[p].op, loaded))
  /\ UNCHANGED <<nextPortfolioId, iterations, nextIterationId, createLog, touched,
                 parserVars, limiterVars, started>>

\* ------------------------------------------- POST /api/preview/:id/regenerate
\* template_id = "none": the body names no template
RegenerateStart(p, user, id, template_id) ==
  /\ CanStart(p)
  /\ IF OwnershipFailure(user, id) # Null
     THEN Refuse(p, OwnershipFailure(user, id))
     ELSE LET portfolio == portfolios[id]
              templateToUse == IF template_id # "none" THEN template_id
                               ELSE portfolio.template_id
              result == generateHTML(portfolio.content, templateToUse)
          IN IF ~ result.success
             THEN Refuse(p, [status |-> 400, error |-> "Preview Regeneration Failed",
                             message |-> result.error])
             ELSE Begin(p, "regen_save",
                        [IdleReq EXCEPT !.op = "regenerate", !.user = user, !.pid = id,
                                        !.portfolio = portfolio, !.result = result,
                                        !.template_id = templateToUse])
  /\ UNCHANGED <<dbVars, parserVars, limiterVars>>

RegenerateSave(p) ==
  /\ pc[p] = "regen_save"
  /\ LET loaded == req[p].portfolio
         instance == [loaded EXCEPT !.generated_html = req[p].result.html,
                                    !.generated_css = req[p].result.css,
                                    !.generated_js = req[p].result.js,
                                    !.template_id = req[p].template_id]
     IN /\ portfolios' = SavedTable(req[p].pid, loaded, instance)
        /\ Respond(p, [status |-> 200, message |-> "regenerated"])
  /\ UNCHANGED <<nextPortfolioId, iterations, nextIterationId, createLog, touched,
                 parserVars, limiterVars, started>>

\* ------------------------------------------- GET /api/preview/public/:slug
\* mutant: the lookup goes by the slug alone
PublishedBySlug_AnyStatus(slug) ==
  {id \in LiveIds : portfolios[id].slug = slug}

\* Portfolio.findOne({ slug, status: 'published', is_public: true })
PublishedBySlug(slug) ==
  {id \in LiveIds : /\ portfolios[id].slug = slug
                    /\ portfolios[id].status = "published"
                    /\ portfolios[id].is_public}

\* The page is sent at once; incrementView and setGeneratedFiles are not
\* awaited and write after the response.
PublicPreviewStart(p, slug) ==
  /\ CanStart(p)
  /\ IF PublishedBySlug(slug) = {}
     THEN Refuse(p, [status |-> 404, error |-> "Portfolio Not Found"])
     ELSE \E id \in PublishedBySlug(slug) :
            LET portfolio == portfolios[id]
                result == generateHTML(portfolio.content, portfolio.template_id)
                locals == [IdleReq EXCEPT !.op = "public", !.pid = id,
                                          !.portfolio = portfolio, !.result = result]
            IN /\ pc' = [pc EXCEPT ![p] = "public_view"]
               /\ req' = [req EXCEPT ![p] = locals]
               /\ started' = started + 1
               /\ response' = [response EXCEPT ![p] =
                     IF portfolio.generated_html # Null
                     THEN HtmlResponse(portfolio.generated_html, "analytics", portfolio)
                     ELSE IF result.success
                     THEN HtmlResponse(result.html, "analytics", portfolio)
                     ELSE [status |-> 500, error |-> "Portfolio Error"]]
  /\ UNCHANGED <<dbVars, parserVars, limiterVars>>

\* Portfolio.prototype.incrementView, run on the loaded instance
incrementView(loaded) == [loaded EXCEPT !.view_count = @ + 1]

PublicPreviewIncrementView(p) ==
  /\ pc[p] = "public_view"
  /\ LET loaded == req[p].portfolio
         instance == incrementView(loaded)
     IN /\ portfolios' = SavedTable(req[p].pid, loaded, instance)
        /\ IF loaded.generated_html = Null /\ req[p].result.success
           THEN /\ pc' = [pc EXCEPT ![p] = "public_cache"]
                /\ req' = [req EXCEPT ![p].portfolio = instance]
           ELSE /\ pc' = [pc EXCEPT ![p] = "idle"]
                /\ req' = [req EXCEPT ![p] = IdleReq]
  /\ UNCHANGED <<nextPortfolioId, iterations, nextIterationId, createLog, touched,
                 parserVars, limiterVars, response, started>>

PublicPreviewCache(p) ==
  /\ pc[p] = "public_cache"
  /\ LET loaded == req[p].portfolio
         result == req[p].result
         instance == setGeneratedFiles(loaded, result.html, result.css, result.js)
     IN portfolios' = SavedTable(req[p].pid, loaded, instance)
  /\ pc' = [pc EXCEPT ![p] = "idle"]
  /\ req' = [req EXCEPT ![p] = IdleReq]
  /\ UNCHANGED <<nextPortfolioId, iterations, nextIterationId, createLog, touched,
                 parserVars, limiterVars, response, started>>

\* -------------------------- POST /api/portfolios/:id/publish and /unpublish
\* Portfolio.prototype.publish / unpublish, run on the loaded instance
publish(loaded) ==
  [loaded EXCEPT !.status = "published", !.is_public = TRUE, !.published_at = "date"]

unpublish(loaded) ==
  [loaded EXCEPT !.status = "draft", !.is_public = FALSE, !.published_at = "null"]

\* checkOwnership loads the portfolio; op is "publish" or "unpublish"
PublishStart(p, user, id, op) ==
  /\ CanStart(p)
  /\ IF OwnershipFailure(user, id) # Null
     THEN Refuse(p, OwnershipFailure(user, id))
     ELSE Begin(p, "pub_save",
                [IdleReq EXCEPT !.op = op, !.user = user, !.pid = id,
                                !.portfolio = portfolios[id]])
  /\ UNCHANGED <<dbVars, parserVars, limiterVars>>

\* await portfolio.publish() / unpublish(), then the answer
PublishSave(p) ==
  /\ pc[p] = "pub_save"
  /\ LET loaded == req[p].portfolio
         instance == IF req[p].op = "publish" THEN publish(loaded)
                     ELSE unpublish(loaded)
     IN /\ portfolios' = SavedTable(req[p].pid, loaded, instance)
        /\ Respond(p, [status |-> 200, message |-> req[p].op, id |-> req[p].pid])
  /\ UNCHANGED <<nextPortfolioId, iterations, nextIterationId, createLog, touched,
                 parserVars, limiterVars, started>>

\* ---------------------------------------- GET /api/portfolios/public/:slug
\* findOne by slug, status published, is_public; 404 when there is none
PublicGetStart(p, slug) ==
  /\ CanStart(p)
  /\ IF PublishedBySlug(slug) = {}
     THEN Refuse(p, [status |-> 404, error |-> "Portfolio not found"])
     ELSE \E id \in PublishedBySlug(slug) :
            Begin(p, "pubget_view",
                  [IdleReq EXCEPT !.op = "public_get", !.pid = id,
                                  !.portfolio = portfolios[id]])
  /\ UNCHANGED <<dbVars, parserVars, limiterVars>>

\* await portfolio.incrementView(), then the portfolio is sent
PublicGetIncrementView(p) ==
  /\ pc[p] = "pubget_view"
  /\ LET loaded == req[p].portfolio
         instance == incrementView(loaded)
     IN /\ portfolios' = SavedTable(req[p].pid, loaded, instance)
        /\ Respond(p, [status |-> 200, id |-> req[p].pid,
                       content |-> instance.content,
                       view_count |-> instance.view_count])
  /\ UNCHANGED <<nextPortfolioId, iterations, nextIterationId, createLog, touched,
                 parserVars, limiterVars, started>>

\* ------------------------------------------------------------------- Init
Init ==
  /\ portfolios = [i \in {} |-> Null]
  /\ nextPortfolioId = 1
  /\ iterations = [i \in {} |-> Null]
  /\ nextIterationId = 1
  /\ pc = [p \in Procs |-> "idle"]
  /\ req = [p \in Procs |-> IdleReq]
  /\ response = [p \in Procs |-> Null]
  /\ started = 0
  /\ createLog = <<>>
  /\ touched = {}
  /\ rawText = Null
  /\ parsed = Null
  /\ hits = EmptyStore
  /\ accepted = NoneAccepted

\* ------------------------------------------------- slugs: the specification
LongTitle == [i \in 1..(SlugMaxLen + 1) |-> "x"]
SlugTitles == {<<"a">>, <<"A", "!">>, <<"a", " ", "1">>, <<"!">>, LongTitle}
SlugUsers == {"u1"}
\* the creations tried: every title for u1, and one for a second owner
SlugCreations ==
  {<<u, t>> : u \in SlugUsers, t \in SlugTitles} \cup {<<"u2", <<"A", "!">>>>}
SlugUpdates ==
  {[slug |-> <<"a">>], [slug |-> <<"a", "-", "1">>], [title |-> <<"b">>]}

PortfolioIds == 1..MaxPortfolios

NextSlug ==
  \E p \in Procs :
    \/ \E c \in SlugCreations : CreateStart(p, c[1], c[2], "none", Null)
    \/ generateSlug(p)
    \/ PortfolioInsert(p)
    \/ \E u \in SlugUsers, id \in PortfolioIds : DuplicateStart(p, u, id, <<>>)
    \/ \E u \in SlugUsers, id \in PortfolioIds : DeleteStart(p, u, id)
    \/ Destroy(p)
    \/ \E u \in SlugUsers, id \in PortfolioIds, upd \in SlugUpdates : PutStart(p, u, id, upd)
    \/ PutSlugCheck(p)
    \/ PutSave(p)

SpecSlug == Init /\ [][NextSlug]_vars

\* ------------------------------------------------------------- slug claims
\* The insertions of owner u, in order.
CreatedBy(u) == SelectSeq(createLog, LAMBDA e : e.user_id = u)

\* Nothing but insertions has touched the portfolios of owner u.
OnlyCreations(u) == u \notin touched

SameTitle(u) ==
  \A i \in 1..Len(CreatedBy(u)) : CreatedBy(u)[i].title = CreatedBy(u)[1].title

\* C7: for a fixed owner, the portfolios created one after another with one
\* and the same title carry the slugs base, base-1, base-2, ... in the order
\* of their creation, where base is the slug derived from the title.
C7_SlugSequence ==
  \A u \in Users :
    (OnlyCreations(u) /\ SameTitle(u)) =>
      \A i \in 1..Len(CreatedBy(u)) :
        CreatedBy(u)[i].slug =
          IF i = 1 THEN BaseSlug(CreatedBy(u)[1].title)
          ELSE SuffixedSlug(BaseSlug(CreatedBy(u)[1].title), i - 1)

C7_Witness ==
  \E u \in Users :
    /\ OnlyCreations(u) /\ SameTitle(u)
    /\ Len(CreatedBy(u)) >= 3
    /\ CreatedBy(u)[1].title = <<"A", "!">>
    /\ CreatedBy(u)[3].slug = <<"a", "-", "2">>

\* C8: no two portfolios of the same owner have the same slug.
C8_UniqueSlugPerOwner ==
  \A i \in LiveIds, j \in LiveIds :
    (i # j /\ portfolios[i].user_id = portfolios[j].user_id)
      => portfolios[i].slug # portfolios[j].slug

\* a request found its slug free, another request has taken the slug since,
\* and the request is about to write
C8_Witness ==
  \E p \in Procs :
    \/ /\ pc[p] = "insert"
       /\ SlugValid(req[p].slug)
       /\ findByUserAndSlug(req[p].user, req[p].slug) # {}
    \/ /\ pc[p] = "put_save"
       /\ "slug" \in DOMAIN req[p].updates
       /\ SlugValid(req[p].updates.slug)
       /\ findByUserAndSlug(req[p].portfolio.user_id, req[p].updates.slug) \ {req[p].pid} # {}

\* -------------------------------------------- iterations: the specification
IterUsers == {"u1"}
IterSections == {"none", "hero"}
FullDoc(v) == [k \in Keys |-> v]
IterOutcomes ==
  {[kind |-> "text", text |-> Text(FALSE, FALSE, JObj(FullDoc("v1")))],
   [kind |-> "overloaded", text |-> Null],
   [kind |-> "error", text |-> Null],
   [kind |-> "timeout", text |-> Null]}

NextIter ==
  \E p \in Procs :
    \/ \E u \in IterUsers : CreateStart(p, u, <<"a">>, "none", Null)
    \/ generateSlug(p)
    \/ PortfolioInsert(p)
    \/ \E u \in IterUsers, id \in PortfolioIds : DeleteStart(p, u, id)
    \/ Destroy(p)
    \/ \E u \in IterUsers : GenerateStart(p, u)
    \/ GenerateCreateIteration(p)
    \/ \E u \in IterUsers, id \in PortfolioIds, sec \in IterSections :
         EnhanceStart(p, u, id, sec)
    \/ EnhanceFind(p)
    \/ \E ok \in BOOLEAN : EnhanceCreateIteration(p, ok)
    \/ \E o \in IterOutcomes : EnhanceModelResponse(p, o)
    \/ \E o \in IterOutcomes : EnhanceFallbackResponse(p, o)
    \/ \E ok \in BOOLEAN : EnhanceUpdateContent(p, ok)
    \/ \E ok \in BOOLEAN : EnhanceMarkCompleted(p, ok)
    \/ \E ok \in BOOLEAN : EnhanceMarkFailed(p, ok)

SpecIter == Init /\ [][NextIter]_vars

\* what the event loop guarantees: a request whose awaited call has settled
\* runs on.  A database call settles; a call of the model settles with a
\* reply, an error of the API, or the timeout error of the client library.
ProgramStep(p) ==
  \/ generateSlug(p)
  \/ PortfolioInsert(p)
  \/ Destroy(p)
  \/ GenerateCreateIteration(p)
  \/ EnhanceFind(p)
  \/ \E ok \in BOOLEAN : EnhanceCreateIteration(p, ok)
  \/ \E o \in IterOutcomes : EnhanceModelResponse(p, o)
  \/ \E o \in IterOutcomes : EnhanceFallbackResponse(p, o)
  \/ \E ok \in BOOLEAN : EnhanceUpdateContent(p, ok)
  \/ \E ok \in BOOLEAN : EnhanceMarkCompleted(p, ok)
  \/ \E ok \in BOOLEAN : EnhanceMarkFailed(p, ok)

FairSpecIter == SpecIter /\ \A p \in Procs : WF_vars(ProgramStep(p))

\* -------------------------------------------------------- iteration claims
TerminalStatus == {"completed", "failed"}

\* C4: the stored status of an Iteration record changes only from pending to
\* completed or from pending to failed; a record that is completed or failed
\* keeps its status.
C4_StatusChangesOnce ==
  [][\A i \in DOMAIN iterations :
       (i \in DOMAIN iterations' /\ iterations'[i].status # iterations[i].status)
         => (iterations[i].status = "pending"
             /\ iterations'[i].status \in TerminalStatus)]_vars

\* two enhancement requests against one portfolio have both ended, one
\* record completed and one failed
C4_Witness ==
  \E i \in DOMAIN iterations, j \in DOMAIN iterations :
    /\ iterations[i].portfolio_id = iterations[j].portfolio_id
    /\ iterations[i].status = "completed"
    /\ iterations[j].status = "failed"

\* C5: a generatePortfolio or enhancePortfolio call that has returned has
\* created exactly one Iteration record, and that record is completed or
\* failed.
C5_OneTerminalIterationPerCall ==
  \A p \in Procs :
    (response[p] # Null /\ "call" \in DOMAIN response[p]) =>
      /\ response[p].call.created = 1
      /\ response[p].call.final \in TerminalStatus

GeneratorLabels ==
  {"gen_iter", "enh_find", "enh_iter", "enh_ai", "enh_ai_fallback", "enh_update",
   "enh_complete", "enh_failed"}

\* C6: every generatePortfolio or enhancePortfolio call eventually returns
\* with its Iteration completed or failed, also when the call of the model
\* ends by timeout.
C6_CallsTerminate ==
  \A p \in Procs :
    (pc[p] \in GeneratorLabels)
      ~> (/\ Idle(p)
          /\ response[p] # Null
          /\ "call" \in DOMAIN response[p]
          /\ response[p].call.final \in TerminalStatus)

\* request p calls openai.chat.completions.create in this step
ModelInvoked(p) == req'[p].modelCalls > req[p].modelCalls

\* C19: one attempt calls openai.chat.completions.create at most twice: once
\* for the primary model and once more, for the fallback model, only after
\* the call of the primary model was rejected with the overload error; after
\* another error of the primary, or an error of the fallback, it calls no
\* more.
C19_AtMostOneFallback ==
  [][\A p \in Procs :
       /\ req'[p].modelCalls <= 2
       /\ ModelInvoked(p) =>
            \/ req[p].modelCalls = 0 /\ req'[p].modelCalls = 1
            \/ /\ req[p].modelCalls = 1 /\ req'[p].modelCalls = 2
               /\ pc[p] = "enh_ai" /\ pc'[p] = "enh_ai_fallback"
               /\ req'[p].error = "model_overloaded"
       /\ pc[p] = "enh_failed" => ~ ModelInvoked(p)]_vars

\* the fallback model was called and failed as well
C19_Witness ==
  \E p \in Procs : pc[p] = "enh_failed" /\ req[p].modelCalls = 2

\* C25: a portfolio on which every enhancePortfolio call so far has returned
\* a failure result (its Iteration is failed, none is in flight) holds the
\* content it was created with.
C25_FailedEnhanceLeavesContent ==
  \A id \in LiveIds :
    (/\ \A p \in Procs : ~ (req[p].op = "enhance" /\ req[p].pid = id)
     /\ \A i \in DOMAIN iterations :
          iterations[i].portfolio_id = id => iterations[i].status = "failed")
      => portfolios[id].content = getDefaultContent

\* C16: a generatePortfolio or enhancePortfolio call that fails returns a
\* tagged failure result (no exception reaches the route, which would answer
\* 500), and the Iteration record the call created is marked failed.
C16_FailuresTaggedAndRecorded ==
  \A p \in Procs :
    (/\ response[p] # Null
     /\ "call" \in DOMAIN response[p]
     /\ response[p].status # 200) =>
      /\ response[p].status = 400
      /\ response[p].call.created = 1 => response[p].call.final = "failed"

\* ------------------------------------------------ cache: the specification
\* The run starts with one published portfolio of u1 (created with the
\* default content by POST /api/portfolios, then published).
PublishedRow ==
  [PortfolioRow("u1", <<"a">>, <<"a">>, "modern-dev", getDefaultContent)
     EXCEPT !.status = "published", !.is_public = TRUE, !.published_at = "date"]

InitCache ==
  /\ portfolios = [i \in {1} |-> PublishedRow]
  /\ nextPortfolioId = 2
  /\ iterations = [i \in {} |-> Null]
  /\ nextIterationId = 1
  /\ pc = [p \in Procs |-> "idle"]
  /\ req = [p \in Procs |-> IdleReq]
  /\ response = [p \in Procs |-> Null]
  /\ started = 0
  /\ createLog = <<[id |-> 1, user_id |-> "u1", title |-> <<"a">>, slug |-> <<"a">>]>>
  /\ touched = {}
  /\ rawText = Null
  /\ parsed = Null
  /\ hits = EmptyStore
  /\ accepted = NoneAccepted

\* "ghost" names no template
CacheUpdates ==
  {[content |-> FullDoc("v1")], [template_id |-> "minimal"], [template_id |-> "ghost"]}
CacheOutcomes == {[kind |-> "text", text |-> Text(FALSE, FALSE, JObj(FullDoc("v2")))]}

NextCache ==
  \E p \in Procs :
    \/ \E variant \in {"html", "iframe"} : PreviewStart(p, "u1", 1, variant)
    \/ PreviewSave(p)
    \/ \E t \in {"none", "minimal", "ghost"} : RegenerateStart(p, "u1", 1, t)
    \/ RegenerateSave(p)
    \/ PublicPreviewStart(p, <<"a">>)
    \/ PublicPreviewIncrementView(p)
    \/ PublicPreviewCache(p)
    \/ \E upd \in CacheUpdates : PutStart(p, "u1", 1, upd)
    \/ PutSave(p)
    \/ EnhanceStart(p, "u1", 1, "none")
    \/ EnhanceFind(p)
    \/ EnhanceCreateIteration(p, TRUE)
    \/ \E o \in CacheOutcomes : EnhanceModelResponse(p, o)
    \/ EnhanceUpdateContent(p, TRUE)
    \/ EnhanceMarkCompleted(p, TRUE)

SpecCache == InitCache /\ [][NextCache]_vars

HasHtml(r) == r # Null /\ "html" \in DOMAIN r

\* C1: the HTML a preview request returns is the render of the content and
\* template_id the Portfolio has when the request reads it.
C1_PreviewIsCurrentRender ==
  \A p \in Procs :
    HasHtml(response[p]) =>
      response[p].html =
        generateHTML(response[p].of.content, response[p].of.template_id).html

\* C2: the step of enhancePortfolio that stores a changed content leaves
\* generated_html, generated_css and generated_js of the Portfolio cleared.
C2_EnhanceClearsCache ==
  [][\A p \in Procs :
       (/\ pc[p] = "enh_update"
        /\ pc'[p] = "enh_complete"
        /\ req[p].pid \in LiveIds
        /\ portfolios'[req[p].pid].content # portfolios[req[p].pid].content)
       => (/\ portfolios'[req[p].pid].generated_html = Null
           /\ portfolios'[req[p].pid].generated_css = "null"
           /\ portfolios'[req[p].pid].generated_js = "null")]_vars

\* C3: no Portfolio holds a cached generated_html that is not the render of
\* the content and template_id it holds.
C3_CacheMatchesContent ==
  \A id \in LiveIds :
    portfolios[id].generated_html # Null =>
      portfolios[id].generated_html =
        generateHTML(portfolios[id].content, portfolios[id].template_id).html

\* ------------------------------------------------ parser: the specification
\* The texts the model may return: a JSON payload, bare or inside a fenced
\* json block, with or without prose around it.  The payload is an object
\* over any set of top-level keys, an array, null, or malformed.
ParsePayloads ==
  {JObj([k \in ks |-> "v1"]) : ks \in SUBSET Keys} \cup {JArr, JNull, JBad}
ParseTexts ==
  {Text(prose, fenced, payload) :
     prose \in BOOLEAN, fenced \in BOOLEAN, payload \in ParsePayloads}

InitParse ==
  /\ portfolios = [i \in {} |-> Null]
  /\ nextPortfolioId = 1
  /\ iterations = [i \in {} |-> Null]
  /\ nextIterationId = 1
  /\ pc = [p \in Procs |-> "idle"]
  /\ req = [p \in Procs |-> IdleReq]
  /\ response = [p \in Procs |-> Null]
  /\ started = 0
  /\ createLog = <<>>
  /\ touched = {}
  /\ rawText \in ParseTexts
  /\ parsed = Null
  /\ hits = EmptyStore
  /\ accepted = NoneAccepted

\* aiService.generatePortfolio: content = this._parsePortfolioContent(text)
ParseContent ==
  /\ parsed = Null
  /\ parsed' = _parsePortfolioContent(rawText)
  /\ UNCHANGED <<dbVars, pc, req, response, started, rawText, limiterVars>>

NextParse == ParseContent

SpecParse == InitParse /\ [][NextParse]_vars

\* the top-level keys the model output supplied
Supplied(text) ==
  IF (JsonParses(text) \/ FencedJsonParses(text)) /\ text.payload.t = "obj"
  THEN DOMAIN text.payload.v ELSE {}

\* C9: the document the portfolio-content parser returns is an object with
\* all six top-level keys, and a key the model output did not supply has the
\* default empty shape.
C9_ParsedHasSixKeys ==
  parsed # Null =>
    /\ parsed.t = "obj"
    /\ \A k \in Keys :
         /\ k \in DOMAIN parsed.v
         /\ k \notin Supplied(rawText) => parsed.v[k] = getDefaultContent[k]

\* ----------------------------------------------- content: the specification
ContentSupplied == {Null, [k \in {"hero"} |-> "v1"]}
ContentUpdates == {[content |-> [k \in {"about"} |-> "v2"]], [content |-> FullDoc("v2")]}
ContentOutcomes ==
  {[kind |-> "text", text |-> Text(FALSE, FALSE, JObj([k \in {"projects"} |-> "v1"]))],
   [kind |-> "text", text |-> Text(TRUE, FALSE, JBad)]}

NextContent ==
  \E p \in Procs :
    \/ \E c \in ContentSupplied : CreateStart(p, "u1", <<"a">>, "none", c)
    \/ generateSlug(p)
    \/ PortfolioInsert(p)
    \/ \E id \in PortfolioIds : DuplicateStart(p, "u1", id, <<>>)
    \/ \E id \in PortfolioIds, upd \in ContentUpdates : PutStart(p, "u1", id, upd)
    \/ PutSave(p)
    \/ \E id \in PortfolioIds, sec \in IterSections : EnhanceStart(p, "u1", id, sec)
    \/ EnhanceFind(p)
    \/ EnhanceCreateIteration(p, TRUE)
    \/ \E o \in ContentOutcomes : EnhanceModelResponse(p, o)
    \/ EnhanceUpdateContent(p, TRUE)
    \/ EnhanceMarkCompleted(p, TRUE)

SpecContent == Init /\ [][NextContent]_vars

\* C10: the content of every persisted Portfolio has all six top-level keys.
C10_ContentHasSixKeys ==
  \A id \in LiveIds : Keys \subseteq DOMAIN portfolios[id].content

\* ------------------------------------------------- merge: the specification
\* The run starts with one draft portfolio of u1 created by POST
\* /api/portfolios with a content that fills all six sections.
InitMerge ==
  /\ portfolios = [i \in {1} |-> PortfolioRow("u1", <<"a">>, <<"a">>, "modern-dev",
                                              FullDoc("v1"))]
  /\ nextPortfolioId = 2
  /\ iterations = [i \in {} |-> Null]
  /\ nextIterationId = 1
  /\ pc = [p \in Procs |-> "idle"]
  /\ req = [p \in Procs |-> IdleReq]
  /\ response = [p \in Procs |-> Null]
  /\ started = 0
  /\ createLog = <<[id |-> 1, user_id |-> "u1", title |-> <<"a">>, slug |-> <<"a">>]>>
  /\ touched = {}
  /\ rawText = Null
  /\ parsed = Null
  /\ hits = EmptyStore
  /\ accepted = NoneAccepted

MergeSections == {"none", "hero"}
\* the model replies with: two sections; a contact object without email; an
\* error
MergeOutcomes ==
  {[kind |-> "text",
    text |-> Text(FALSE, FALSE, JObj([k \in {"hero", "about"} |-> "v2"]))],
   [kind |-> "text",
    text |-> Text(FALSE, FALSE, JObj([k \in {"contact"} |-> "partial"]))],
   [kind |-> "error", text |-> Null]}
MergeUpdates == {[content |-> [k \in {"about"} |-> "text"]]}

NextMerge ==
  \E p \in Procs :
    \/ \E sec \in MergeSections : EnhanceStart(p, "u1", 1, sec)
    \/ EnhanceFind(p)
    \/ EnhanceCreateIteration(p, TRUE)
    \/ \E o \in MergeOutcomes : EnhanceModelResponse(p, o)
    \/ EnhanceUpdateContent(p, TRUE)
    \/ EnhanceMarkCompleted(p, TRUE)
    \/ EnhanceMarkFailed(p, TRUE)
    \/ \E sec \in MergeSections : EnhanceSectionStart(p, "u1", 1, sec)
    \/ \E o \in MergeOutcomes : EnhanceSectionResponse(p, o)
    \/ EnhanceSectionUpdate(p, TRUE)
    \/ \E upd \in MergeUpdates : PutStart(p, "u1", 1, upd)
    \/ PutSave(p)

SpecMerge == InitMerge /\ [][NextMerge]_vars

\* ------------------------------------------------------------ merge claims
\* request p stores the document of a section-scoped enhancement in this step
SectionSave(p) ==
  /\ req[p].pid \in LiveIds
  /\ req[p].section # "none"
  /\ \/ pc[p] = "enh_update" /\ pc'[p] = "enh_complete"
     \/ pc[p] = "sec_update" /\ pc'[p] = "idle" /\ response'[p].status = 200

\* C11: an enhancement of section S either writes nothing, or stores a
\* document that has, for every top-level key other than S, the value the
\* Portfolio had when the enhancement loaded it, with no other key added or
\* removed.
C11_SectionEnhancementFrame ==
  [][\A p \in Procs :
       SectionSave(p) =>
         LET S == req[p].section
             before == req[p].portfolio.content
             after == portfolios'[req[p].pid].content
         IN \/ portfolios' = portfolios
            \/ /\ DOMAIN after \ {S} = DOMAIN before \ {S}
               /\ \A k \in DOMAIN before \ {S} : after[k] = before[k]]_vars

\* the hero section was enhanced from a reply that also carried an about
\* section; the stored about is the old one
C11_Witness ==
  \E p \in Procs :
    /\ pc[p] = "enh_complete"
    /\ req[p].section = "hero"
    /\ "about" \in DOMAIN req[p].result.v
    /\ portfolios[req[p].pid].content["hero"] = "v2"
    /\ portfolios[req[p].pid].content["about"] = "v1"

\* contact.email of a section value: "absent" when it has no email field
EmailOf(v) ==
  CASE v = "v1" -> "a@x.com"
    [] v = "v2" -> "b@y.com"
    [] v \in {"empty", "basic"} -> ""
    [] OTHER -> "absent"

ContactEmail(doc) ==
  IF "contact" \in DOMAIN doc THEN EmailOf(doc["contact"]) ELSE "absent"

\* the document enhancePortfolio computes from the content it loaded
MergedDocument(p) ==
  IF req[p].section # "none"
  THEN Spread(req[p].portfolio.content,
              [k \in {req[p].section} |-> SectionValue(req[p].result, req[p].section)])
  ELSE Spread(req[p].portfolio.content, req[p].result.v)

\* request p stores the document of a whole-document enhancement in this step
WholeSave(p) ==
  /\ req[p].pid \in LiveIds
  /\ req[p].section = "none"
  /\ pc[p] = "enh_update" /\ pc'[p] = "enh_complete"
  /\ MergedDocument(p) # req[p].portfolio.content

\* C12: in the document stored by a whole-document enhancement a key of the
\* generated document has the generated value, a key only the existing
\* document has keeps its value, and an existing contact.email is kept when
\* the generated document has no contact.email.
C12_OldFillsGaps ==
  [][\A p \in Procs :
       WholeSave(p) =>
         LET old == req[p].portfolio.content
             new == req[p].result.v
             final == portfolios'[req[p].pid].content
         IN /\ \A k \in DOMAIN new : final[k] = new[k]
            /\ \A k \in DOMAIN old \ DOMAIN new : final[k] = old[k]
            /\ (ContactEmail(old) # "absent" /\ ContactEmail(new) = "absent")
                 => ContactEmail(final) = ContactEmail(old)]_vars

RenderedFields ==
  {"content", "template_id", "generated_html", "generated_css", "generated_js"}

\* request p learns in this step that its render failed, or runs on after it
RenderFailedStep(p) ==
  \/ /\ pc[p] = "idle" /\ pc'[p] = "idle" /\ started' # started
     /\ "error" \in DOMAIN response'[p]
     /\ response'[p].error \in {"Preview Generation Failed", "Preview Regeneration Failed"}
  \/ /\ pc[p] = "idle" /\ pc'[p] = "public_view"
     /\ req'[p].portfolio.generated_html = Null /\ ~ req'[p].result.success
  \/ /\ pc[p] = "public_view" /\ pc'[p] = "idle"
     /\ req[p].portfolio.generated_html = Null /\ ~ req[p].result.success

\* C13: generateHTML with a templateId that is not registered returns a
\* failure that names the template and no page; a request whose render
\* failed so sends no rendered page (the authenticated routes answer 400
\* with that failure, the public route with its error page) and changes
\* content, template_id, generated_html, generated_css and generated_js of
\* no Portfolio.
C13_TemplateNotFound ==
  [][/\ \A t \in {"ghost", "none"}, v \in {"empty", "v1"} :
          /\ ~ generateHTML(FullDoc(v), t).success
          /\ generateHTML(FullDoc(v), t).html = Null
          /\ generateHTML(FullDoc(v), t).error = TemplateNotFound(t)
     /\ \A p \in Procs :
          RenderFailedStep(p) =>
            /\ ~ HasHtml(response'[p])
            /\ response'[p].status = 400
                 => /\ "message" \in DOMAIN response'[p]
                    /\ \/ \E t \in {"ghost"} : response'[p].message = TemplateNotFound(t)
                       \/ response'[p].message = MissingHelper("range")
            /\ \A id \in LiveIds : \A f \in RenderedFields :
                 portfolios'[id][f] = portfolios[id][f]]_vars

\* a regenerate request naming the missing template was refused while the
\* Portfolio holds a cached page
C13_Witness ==
  \E p \in Procs :
    /\ response[p] # Null
    /\ "error" \in DOMAIN response[p]
    /\ response[p].error = "Preview Regeneration Failed"
    /\ response[p].message = TemplateNotFound("ghost")
    /\ portfolios[1].generated_html # Null
    /\ portfolios[1].template_id \in compiledTemplates

\* ---------------------------------------------- renderer: the specification
\* The renderer is called twice on one pair of document and templateId; the
\* clock and the templates directory are what they are at each call.
RenderDocs ==
  {EmptyDoc, FullDoc("v1")}
    \cup {[k \in {"projects"} |-> v] : v \in {"empty", "v1", "text", "nested"}}
RenderTemplates == {"modern-dev", "minimal", "ghost"}
RenderYears == {ServingYear, ServingYear + 1}
RenderFiles == {ShippedFiles, ShippedFiles \cup {"minimal/style.css"}}
MaxRenders == 2

InitRender ==
  /\ portfolios = [i \in {} |-> Null]
  /\ nextPortfolioId = 1
  /\ iterations = [i \in {} |-> Null]
  /\ nextIterationId = 1
  /\ pc = [p \in Procs |-> "idle"]
  /\ req = [p \in Procs |-> IdleReq]
  /\ response = [p \in Procs |-> Null]
  /\ started = 0
  /\ createLog = <<>>
  /\ touched = {}
  /\ rawText \in [content : RenderDocs, templateId : RenderTemplates]
  /\ parsed = <<>>
  /\ hits = EmptyStore
  /\ accepted = NoneAccepted

\* one call templateEngine.generateHTML(content, templateId)
RenderCall(year, files) ==
  /\ Len(parsed) < MaxRenders
  /\ parsed' = Append(parsed, Render(rawText.content, rawText.templateId, year, files))
  /\ UNCHANGED <<dbVars, pc, req, response, started, rawText, limiterVars>>

NextRender == \E year \in RenderYears, files \in RenderFiles : RenderCall(year, files)

SpecRender == InitRender /\ [][NextRender]_vars

\* C14: two calls of the renderer on the same document and templateId
\* return the same html, css and js.
C14_RenderDeterministic ==
  \A i \in 1..Len(parsed) : \A j \in 1..Len(parsed) :
    /\ parsed[i].html = parsed[j].html
    /\ parsed[i].css = parsed[j].css
    /\ parsed[i].js = parsed[j].js

\* projects is a list with at least one element
NonEmptyList(content, k) ==
  k \in DOMAIN content /\ content[k] \in {"v1", "v2"}

\* C15: the has_projects flag handed to the template is true exactly when
\* projects of the document is a non-empty list.
C15_HasProjectsFlag ==
  \A i \in 1..Len(parsed) :
    parsed[i].success =>
      parsed[i].html.data.has_projects = NonEmptyList(rawText.content, "projects")

\* -------------------------------------------- validation: the specification
\* The run starts with one portfolio of u1 that holds the six sections.
\* Requests arrive with short and long prompts, with section names of the
\* document and a name that is none of them, and with sources that lack the
\* field their kind needs.
ValidateSections == {"none", "hero", "skills"}
PromptLengths == {5, 20}
ValidateSources ==
  {<<>>,
   <<[type |-> "github", object |-> TRUE, fields |-> {"username"}]>>,
   <<[type |-> "github", object |-> TRUE, fields |-> {}]>>,
   <<[type |-> "resume", object |-> TRUE, fields |-> {}]>>,
   <<[type |-> "resume", object |-> FALSE, fields |-> {}]>>,
   <<[type |-> "blog", object |-> TRUE, fields |-> {}]>>}
ValidateOutcomes ==
  {[kind |-> "text", text |-> Text(FALSE, FALSE, JObj([k \in {"hero"} |-> "v2"]))],
   [kind |-> "error", text |-> Null]}

NextValidate ==
  \E p \in Procs :
    \/ \E src \in ValidateSources : GenerateRequest(p, "u1", src)
    \/ GenerateCreateIteration(p)
    \/ \E n \in PromptLengths, sec \in ValidateSections :
         IterateRequest(p, "u1", 1, n, sec)
    \/ EnhanceFind(p)
    \/ EnhanceCreateIteration(p, TRUE)
    \/ \E o \in ValidateOutcomes : EnhanceModelResponse(p, o)
    \/ EnhanceUpdateContent(p, TRUE)
    \/ EnhanceMarkCompleted(p, TRUE)
    \/ EnhanceMarkFailed(p, TRUE)
    \/ \E sec \in ValidateSections : EnhanceSectionStart(p, "u1", 1, sec)
    \/ \E o \in ValidateOutcomes : EnhanceSectionResponse(p, o)
    \/ EnhanceSectionUpdate(p, TRUE)

SpecValidate == InitMerge /\ [][NextValidate]_vars

\* a source that lacks the field its kind needs
SourceMalformed(source) ==
  \/ ~ source.object
  \/ source.type = "github" /\ "username" \notin source.fields
  \/ source.type = "resume" /\ source.fields \cap {"text", "content"} = {}

\* the input of the request in slot p is malformed
Malformed(p) ==
  \/ req[p].section \notin Keys \cup {"none"}
  \/ \E i \in 1..Len(req[p].sources) : SourceMalformed(req[p].sources[i])

\* the request in slot p has called the model (generatePortfolio is refused
\* at its first step, before it calls GitHub or the model)
ExternalCallLabels ==
  {"enh_ai", "enh_ai_fallback", "enh_update", "enh_complete", "enh_failed",
   "sec_ai", "sec_update"}

\* C17: a generate or enhance request with a malformed input makes no call
\* to the model or to GitHub, and no stored document gets a key other than
\* the six.
C17_MalformedInputRejected ==
  /\ \A p \in Procs : Malformed(p) => pc[p] \notin ExternalCallLabels
  /\ \A id \in LiveIds : DOMAIN portfolios[id].content \subseteq Keys

\* C22: generatePortfolio returns a failure result only after the
\* text-generation step: a source that cannot be normalized is left out and
\* the call goes on to the model.
C22_OnlyGenerationFailureIsTerminal ==
  [][\A p \in Procs :
       (req[p].op = "generate" /\ pc'[p] = "idle") => req[p].modelCalls >= 1]_vars

\* C23: a generatePortfolio call that returned a failure result has marked
\* its Iteration failed and has persisted no Portfolio.
C23_FailedGenerationIsRecorded ==
  \A p \in Procs :
    (/\ response[p] # Null
     /\ "call" \in DOMAIN response[p]
     /\ response[p].call.op = "generate"
     /\ response[p].status # 201) =>
      /\ response[p].call.final = "failed"
      /\ Len(createLog) = Cardinality(DOMAIN portfolios)
      /\ \A id \in LiveIds : DOMAIN portfolios[id].content = Keys

\* -------------------------------------------- rate limit: the specification
AiTokens == Users \cup {"none"}

NextLimit ==
  \/ \E p \in Procs, token \in AiTokens : TemplateRecommendationsRequest(p, token)
  \/ WindowReset

SpecLimit == Init /\ [][NextLimit]_vars

\* C18: within one window of the limiter at most 10 AI requests of a free
\* user, and at most 50 of a pro user, reach a route handler.
C18_AiRequestsLimited ==
  \A u \in Users : accepted[u] <= aiLimiterMax(u)

\* -------------------------------------------- normalizer: the specification
\* _processSources is applied to every list of at most MaxSources sources.
NormalizerSources ==
  [type : SourceTypes, fields : {{}, {"username"}, {"text"}}, ok : BOOLEAN]
SourceLists ==
  UNION {[1..n -> NormalizerSources] : n \in 0..MaxSources}

InitSources ==
  /\ portfolios = [i \in {} |-> Null]
  /\ nextPortfolioId = 1
  /\ iterations = [i \in {} |-> Null]
  /\ nextIterationId = 1
  /\ pc = [p \in Procs |-> "idle"]
  /\ req = [p \in Procs |-> IdleReq]
  /\ response = [p \in Procs |-> Null]
  /\ started = 0
  /\ createLog = <<>>
  /\ touched = {}
  /\ rawText \in SourceLists
  /\ parsed = Null
  /\ hits = EmptyStore
  /\ accepted = NoneAccepted

ProcessSources ==
  /\ parsed = Null
  /\ parsed' = [list |-> _processSources(rawText)]
  /\ UNCHANGED <<dbVars, pc, req, response, started, rawText, limiterVars>>

SpecSources == InitSources /\ [][ProcessSources]_vars

\* C21: the normalized list has no entry for a source whose type is none of
\* github, resume, prompt, linkedin, and holds the other entries in the
\* order of the input.
C21_UnknownTypesSkipped ==
  parsed # Null =>
    /\ \A i \in 1..Len(parsed.list) :
         parsed.list[i].type \in {"github", "resume", "prompt", "linkedin"}
    /\ parsed.list =
         _processSources(SelectSeq(rawText, LAMBDA src :
            src.type \in {"github", "resume", "prompt", "linkedin"}))

\* ------------------------------------------------ public: the specification
\* The run starts with two drafts that share the slug "a": one of u1 with
\* the template modern-dev and one of u2 with the template minimal (each
\* created by its owner with the title "a").
InitPublic ==
  /\ portfolios = [i \in {1, 2} |->
       IF i = 1 THEN PortfolioRow("u1", <<"a">>, <<"a">>, "modern-dev", getDefaultContent)
       ELSE PortfolioRow("u2", <<"a">>, <<"a">>, "minimal", getDefaultContent)]
  /\ nextPortfolioId = 3
  /\ iterations = [i \in {} |-> Null]
  /\ nextIterationId = 1
  /\ pc = [p \in Procs |-> "idle"]
  /\ req = [p \in Procs |-> IdleReq]
  /\ response = [p \in Procs |-> Null]
  /\ started = 0
  /\ createLog = <<[id |-> 1, user_id |-> "u1", title |-> <<"a">>, slug |-> <<"a">>],
                   [id |-> 2, user_id |-> "u2", title |-> <<"a">>, slug |-> <<"a">>]>>
  /\ touched = {}
  /\ rawText = Null
  /\ parsed = Null
  /\ hits = EmptyStore
  /\ accepted = NoneAccepted

\* request bodies of the PUT: a status, and attributes the route does not
\* name
PublicUpdates ==
  {[status |-> "published"], [generated_css |-> "body{}"], [view_count |-> 0]}

NextPublic ==
  \E p \in Procs :
    \/ \E id \in {1, 2}, op \in {"publish", "unpublish"} :
         PublishStart(p, portfolios[id].user_id, id, op)
    \/ PublishSave(p)
    \/ \E upd \in PublicUpdates : PutStart(p, "u1", 1, upd)
    \/ PutSave(p)
    \/ PublicPreviewStart(p, <<"a">>)
    \/ PublicPreviewIncrementView(p)
    \/ PublicPreviewCache(p)
    \/ PublicGetStart(p, <<"a">>)
    \/ PublicGetIncrementView(p)

SpecPublic == InitPublic /\ [][NextPublic]_vars

\* C24: the three generated fields of a portfolio are all null, or the
\* stored css and js are the css and js of the render the stored html comes
\* from.
C24_GeneratedFieldsTogether ==
  \A id \in LiveIds :
    LET row == portfolios[id]
    IN IF row.generated_html = Null
       THEN row.generated_css = "null" /\ row.generated_js = "null"
       ELSE row.generated_css = row.generated_html.css
            /\ row.generated_js = row.generated_html.js

\* C26: a portfolio has the status published exactly when it is public and
\* has a publication date.
C26_PublishedIffPublic ==
  \A id \in LiveIds :
    portfolios[id].status = "published"
      <=> (portfolios[id].is_public /\ portfolios[id].published_at # "null")

\* C27: the save of a PUT changes no attribute other than title, slug,
\* status, template_id and content.
C27_PutFrame ==
  [][\A p \in Procs :
       (pc[p] = "put_save" /\ req[p].pid \in LiveIds) =>
         \A f \in PortfolioFields \ {"title", "slug", "status", "template_id", "content"} :
           portfolios'[req[p].pid][f] = portfolios[req[p].pid][f]]_vars

\* the row is one the public lookup matches
PubliclyServed(row) == row.status = "published" /\ row.is_public

C29_ViewCountedOnce ==
  [][\A p \in Procs :
       (/\ pc[p] \in {"public_view", "pubget_view"}
        /\ pc'[p] # pc[p]
        /\ req[p].pid \in LiveIds) =>
         portfolios'[req[p].pid].view_count = portfolios[req[p].pid].view_count + 1]_vars

\* C30: at most one portfolio matches the public lookup of a slug.
C30_OnePublicPortfolioPerSlug ==
  \A id \in LiveIds : Cardinality(PublishedBySlug(portfolios[id].slug)) <= 1

====
